---- MODULE Spec2Model ----
(***************************************************************************)
(* Model of the registry and OTA core of the SDV GenAI framework:          *)
(*   - OTAManager (src/framework/ota/ota_manager.py) working on one        *)
(*     application directory that holds service_registry.json and          *)
(*     ota_history.json;                                                   *)
(*   - ServiceRegistry (src/framework/soa/service_registry.py);            *)
(*   - SDVOrchestrator.inject_ota_service                                  *)
(*     (src/framework/core/orchestrator.py) on the same directory.         *)
(*                                                                         *)
(* A Python dict is modelled as a function whose DOMAIN is its key set, so *)
(* "key in d" is  k \in DOMAIN d  and a missing key stays missing.         *)
(***************************************************************************)
EXTENDS Integers, Sequences, FiniteSets, TLC

VARIABLES
    registry_file,   \* service_registry.json: [exists, content]
    ota_log_file,    \* ota_history.json: [exists, content]
    ota_history,     \* OTAManager.ota_history, the journal in memory
    clock,           \* the last value read from datetime.now()
    call,            \* the public operation called last and its argument
    result,          \* what that call returned, or the exception it raised
    injected,        \* history variable: name and given version of every
                     \* inject_service call that returned success, in call order
    instances,       \* ServiceRegistry.services (the instance map), in
                     \* insertion order
    service_metadata,\* ServiceRegistry.service_metadata
    saved_file,      \* the file save_registry writes outside the application
                     \* directory: [exists, content]
    saved_metadata,  \* history variable: self.service_metadata as it was at
                     \* the last save_registry call
    app_files,       \* the files SDVOrchestrator writes under the application
                     \* directory, by path
    generation,      \* the generate_application call in progress: its
                     \* position, its local variables and the calls it has
                     \* made so far
    second_history,  \* ota_history of a second OTAManager on the same
                     \* application directory
    initialized,     \* ServiceBase.initialized
    start_time       \* ServiceBase.start_time

otaVars == <<registry_file, ota_log_file, ota_history, clock, injected>>

registryVars == <<instances, service_metadata, saved_file, saved_metadata>>

pipelineVars == <<generation>>

secondVars == <<second_history>>

serviceVars == <<initialized, start_time>>

vars == <<registry_file, ota_log_file, ota_history, clock, call, result,
          injected, instances, service_metadata, saved_file, saved_metadata,
          app_files, generation, second_history, initialized, start_time>>

-----------------------------------------------------------------------------
(* Bounds and input sets *)

\* Successful inject_service calls in one run.
MaxOps == 3

Names == {"X", "Y"}

\* A name that is never injected, for rollback_service on an unknown service.
UnknownName == "W"

\* Two of the languages _validate_service supports.
Languages == {"rust", "cpp"}

\* A language it does not support.
UnsupportedLanguage == "cobol"

\* A definition gives this version or none (then "1.0.0" is used).
Versions == {"2.0.0"}

-----------------------------------------------------------------------------
(* Python dicts *)

EmptyDict == [k \in {} |-> k]

\* d.get(k, default)
DictGet(d, k, default) == IF k \in DOMAIN d THEN d[k] ELSE default

\* d[k] = v
DictSet(d, k, v) == (k :> v) @@ d

\* The dicts with key k bound to a value of S, and the dict without k.
Optional(k, S) == {EmptyDict} \cup {(k :> v) : v \in S}

\* The dict d without the keys of F.
Without(d, F) == [k \in DOMAIN d \ F |-> d[k]]

\* What a definition says about interfaces and dependencies: one interface
\* and no "dependencies" key, or no interface and one dependency.
Payloads ==
    { ("interfaces" :> <<"a">>),
      ("interfaces" :> <<>>) @@ ("dependencies" :> <<"Y">>) }

\* Definitions with every required field and a supported language;
\* "version" is optional.
CompleteDefinitions ==
    { n @@ l @@ p @@ v :
        n \in {("name" :> x) : x \in Names},
        l \in {("language" :> x) : x \in Languages},
        p \in Payloads,
        v \in Optional("version", Versions) }

\* Definitions with every required field and an unsupported language.
UnsupportedDefinitions ==
    { [name |-> n, language |-> UnsupportedLanguage, interfaces |-> <<>>] :
        n \in Names }

\* Definitions that lack one or more of name, language and interfaces.
IncompleteDefinitions ==
    { Without(d, F) :
        d \in { [name |-> "Y", language |-> "rust", interfaces |-> <<"a">>],
                [name |-> "Y", language |-> UnsupportedLanguage,
                 interfaces |-> <<>>] },
        F \in (SUBSET {"name", "language", "interfaces"}) \ {{}} }

\* The service definitions handed to inject_service.
ServiceDefinitions ==
    CompleteDefinitions \cup UnsupportedDefinitions \cup IncompleteDefinitions

-----------------------------------------------------------------------------
(* Files of the application directory *)

NoFile == [exists |-> FALSE, content |-> EmptyDict]

File(content) == [exists |-> TRUE, content |-> content]

\* get_service_registry
GetServiceRegistry(regfile) ==
    IF regfile.exists
    THEN regfile.content
    ELSE [services |-> <<>>, version |-> "1.0.0"]

\* A JSON string that is an element of the "services" array, where the
\* other writers of the file put JSON objects.
JsonString(s) == [str |-> s]

IsJsonString(v) == DOMAIN v = {"str"}

\* The mutant of LoadOtaHistory that starts every OTAManager with an empty
\* journal.
LoadOtaHistory_Empty(logfile) == <<>>

\* _load_ota_history
LoadOtaHistory(logfile) == IF logfile.exists THEN logfile.content ELSE <<>>

-----------------------------------------------------------------------------
(* inject_service and its helpers *)

RequiredFields == <<"name", "language", "interfaces">>

SupportedLanguages == {"cpp", "c", "rust", "java", "python"}

\* The mutant of ValidateService that forgets the language check.
ValidateService_NoLanguageCheck(def) ==
    \A i \in DOMAIN RequiredFields : RequiredFields[i] \in DOMAIN def

\* _validate_service
ValidateService(def) ==
    /\ \A i \in DOMAIN RequiredFields : RequiredFields[i] \in DOMAIN def
    /\ def["language"] \in SupportedLanguages

\* The mutant of ValidationError that names the rejected language.
ValidationError_NamesLanguage(def) ==
    IF /\ \A i \in DOMAIN RequiredFields : RequiredFields[i] \in DOMAIN def
       /\ def["language"] \notin SupportedLanguages
    THEN "Unsupported language '" \o def["language"] \o "'"
    ELSE "Invalid service definition"

\* The error text of the failure result; the reason found by
\* _validate_service is printed, not returned.
ValidationError(def) == "Invalid service definition"

\* The mutant of ServiceExists that never finds the service.
ServiceExists_Never(regfile, service_name) == FALSE

\* _service_exists
ServiceExists(regfile, service_name) ==
    LET services == DictGet(GetServiceRegistry(regfile), "services", <<>>)
    IN  \E i \in DOMAIN services :
            /\ "name" \in DOMAIN services[i]
            /\ services[i]["name"] = service_name

\* _service_exists raises AttributeError: its loop calls service.get on an
\* element of "services" that is a string, before it has found the name.
ServiceExistsRaises(regfile, service_name) ==
    LET services == DictGet(GetServiceRegistry(regfile), "services", <<>>)
    IN  \E i \in DOMAIN services :
            /\ IsJsonString(services[i])
            /\ \A j \in 1..(i - 1) :
                    ~ /\ "name" \in DOMAIN services[j]
                      /\ services[j]["name"] = service_name

\* The record _register_service appends for operation "inject".
NewServiceRecord(def, now) ==
    [ name             |-> def["name"],
      language         |-> def["language"],
      version          |-> DictGet(def, "version", "1.0.0"),
      interfaces       |-> DictGet(def, "interfaces", <<>>),
      dependencies     |-> DictGet(def, "dependencies", <<>>),
      injected_via_ota |-> TRUE,
      injection_date   |-> now ]

\* The index of the first record named name, 0 if there is none: where the
\* update loop of _register_service stops.
FirstNamed(services, name) ==
    IF \E i \in DOMAIN services : services[i]["name"] = name
    THEN CHOOSE i \in DOMAIN services :
            /\ services[i]["name"] = name
            /\ \A j \in 1..(i - 1) : services[j]["name"] # name
    ELSE 0

\* The mutant of RegisterService whose update keeps the old version when the
\* definition gives none.
RegisterService_KeepVersion(regfile, def, operation, now) ==
    LET registry == GetServiceRegistry(regfile)
        services == registry["services"]
        k        == FirstNamed(services, def["name"])
    IN  IF operation = "inject"
        THEN DictSet(registry, "services",
                     Append(services, NewServiceRecord(def, now)))
        ELSE IF k = 0
             THEN registry
             ELSE DictSet(registry, "services",
                    [services EXCEPT ![k] =
                        DictSet(DictSet(DictSet(services[k],
                            "version",
                            DictGet(def, "version", services[k]["version"])),
                            "updated_via_ota", TRUE),
                            "last_update", now)])

\* The mutant of RegisterService whose update rewrites the whole record.
RegisterService_Overwrite(regfile, def, operation, now) ==
    LET registry == GetServiceRegistry(regfile)
        services == registry["services"]
        k        == FirstNamed(services, def["name"])
    IN  IF operation = "inject"
        THEN DictSet(registry, "services",
                     Append(services, NewServiceRecord(def, now)))
        ELSE IF k = 0
             THEN registry
             ELSE DictSet(registry, "services",
                    [services EXCEPT ![k] =
                        DictSet(DictSet(NewServiceRecord(def, now),
                            "updated_via_ota", TRUE), "last_update", now)])

\* _register_service: the registry it writes to service_registry.json.
RegisterService(regfile, def, operation, now) ==
    LET registry == GetServiceRegistry(regfile)
        services == registry["services"]
        k        == FirstNamed(services, def["name"])
    IN  IF operation = "inject"
        THEN DictSet(registry, "services",
                     Append(services, NewServiceRecord(def, now)))
        ELSE IF k = 0
             THEN registry
             ELSE DictSet(registry, "services",
                    [services EXCEPT ![k] =
                        DictSet(DictSet(DictSet(services[k],
                            "version", DictGet(def, "version", "1.0.0")),
                            "updated_via_ota", TRUE),
                            "last_update", now)])

\* The OTARecord built by inject_service.
OtaRecord(def, operation, now) ==
    [ timestamp    |-> now,
      operation    |-> operation,
      service_name |-> def["name"],
      version      |-> DictGet(def, "version", "1.0.0"),
      language     |-> def["language"],
      status       |-> "success" ]

\* The mutant of LogOtaOperation that keeps only the latest record of a
\* service.
LogOtaOperation_Replace(history, ota_record) ==
    Append(SelectSeq(history,
                LAMBDA h : h["service_name"] # ota_record["service_name"]),
           ota_record)

\* self.ota_history.append(ota_record)
LogOtaOperation(history, ota_record) == Append(history, ota_record)

Raised(exception, key) == [raised |-> exception, key |-> key]

\* inject_service(service_definition). datetime.now() is read twice, by
\* _register_service and for the OTARecord; each read advances the clock by
\* one.
inject_service(def) ==
    /\ call' = [op |-> "inject_service", arg |-> def]
    /\ IF "name" \notin DOMAIN def
       THEN \* print(f"Service: {service_definition['name']}")
            /\ result' = Raised("KeyError", "name")
            /\ UNCHANGED <<registry_file, ota_log_file, ota_history, clock,
                           injected>>
       ELSE IF "language" \notin DOMAIN def
       THEN \* print(f"Language: {service_definition['language']}")
            /\ result' = Raised("KeyError", "language")
            /\ UNCHANGED <<registry_file, ota_log_file, ota_history, clock,
                           injected>>
       ELSE IF ~ValidateService(def)
       THEN /\ result' = [status |-> "failed", error |-> ValidationError(def)]
            /\ UNCHANGED <<registry_file, ota_log_file, ota_history, clock,
                           injected>>
       ELSE IF ServiceExistsRaises(registry_file, def["name"])
       THEN \* if service.get('name') == service_name
            /\ result' = Raised("AttributeError", "get")
            /\ UNCHANGED <<registry_file, ota_log_file, ota_history, clock,
                           injected>>
       ELSE LET operation  == IF ServiceExists(registry_file, def["name"])
                              THEN "update" ELSE "inject"
                t1         == clock + 1
                t2         == clock + 2
                ota_record == OtaRecord(def, operation, t2)
                history    == LogOtaOperation(ota_history, ota_record)
            IN  /\ Len(injected) < MaxOps
                /\ registry_file' =
                       File(RegisterService(registry_file, def, operation, t1))
                /\ ota_history' = history
                /\ ota_log_file' = File(history)
                /\ clock' = t2
                /\ injected' = Append(injected,
                       [d \in DOMAIN def \cap {"name", "version"} |-> def[d]])
                /\ result' = [ status       |-> "success",
                               operation    |-> operation,
                               service_name |-> def["name"],
                               timestamp    |-> ota_record["timestamp"] ]
    /\ UNCHANGED <<registryVars, app_files, pipelineVars, secondVars,
                   serviceVars>>

-----------------------------------------------------------------------------
(* get_ota_history and rollback_service *)

\* The mutant of get_ota_history that returns the newest record first.
get_ota_history_NewestFirst ==
    /\ call' = [op |-> "get_ota_history", arg |-> EmptyDict]
    /\ result' = [history |->
            [i \in DOMAIN ota_history |->
                ota_history[Len(ota_history) + 1 - i]]]
    /\ UNCHANGED <<registry_file, ota_log_file, ota_history, clock, injected>>
    /\ UNCHANGED <<registryVars, app_files, pipelineVars, secondVars,
                   serviceVars>>

\* get_ota_history()
get_ota_history ==
    /\ call' = [op |-> "get_ota_history", arg |-> EmptyDict]
    /\ result' = [history |-> ota_history]
    /\ UNCHANGED <<registry_file, ota_log_file, ota_history, clock, injected>>
    /\ UNCHANGED <<registryVars, app_files, pipelineVars, secondVars,
                   serviceVars>>

\* The mutant of RollbackResult that reports the latest version.
RollbackResult_Latest(history, service_name) ==
    LET service_history ==
            SelectSeq(history, LAMBDA h : h["service_name"] = service_name)
    IN  IF Len(service_history) < 2
        THEN [status |-> "failed", error |-> "No previous version available"]
        ELSE [ status         |-> "success",
               service_name   |-> service_name,
               rolled_back_to |->
                   service_history[Len(service_history)]["version"] ]

\* What rollback_service returns.
RollbackResult(history, service_name) ==
    LET service_history ==
            SelectSeq(history, LAMBDA h : h["service_name"] = service_name)
    IN  IF Len(service_history) < 2
        THEN [status |-> "failed", error |-> "No previous version available"]
        ELSE [ status         |-> "success",
               service_name   |-> service_name,
               rolled_back_to |->
                   service_history[Len(service_history) - 1]["version"] ]

\* The mutant of rollback_service that journals a successful rollback.
rollback_service_Journaled(service_name) ==
    LET r       == RollbackResult(ota_history, service_name)
        history == IF r["status"] = "success"
                   THEN Append(ota_history,
                            [ timestamp    |-> clock + 1,
                              operation    |-> "rollback",
                              service_name |-> service_name,
                              version      |-> r["rolled_back_to"],
                              language     |-> "rust",
                              status       |-> "success" ])
                   ELSE ota_history
    IN  /\ call' = [op |-> "rollback_service",
                    arg |-> [service_name |-> service_name]]
        /\ result' = r
        /\ Len(ota_history) <= MaxOps
        /\ ota_history' = history
        /\ ota_log_file' = IF history = ota_history
                           THEN ota_log_file ELSE File(history)
        /\ clock' = IF history = ota_history THEN clock ELSE clock + 1
        /\ UNCHANGED <<registry_file, injected>>
        /\ UNCHANGED <<registryVars, app_files, pipelineVars, secondVars,
                       serviceVars>>

\* The mutant of rollback_service that drops the latest journal record of
\* the service it rolls back.
rollback_service_Reverting(service_name) ==
    LET r    == RollbackResult(ota_history, service_name)
        last == CHOOSE i \in DOMAIN ota_history :
                    /\ ota_history[i]["service_name"] = service_name
                    /\ \A j \in DOMAIN ota_history :
                            ota_history[j]["service_name"] = service_name
                                => j <= i
        history == IF r["status"] = "success"
                   THEN SubSeq(ota_history, 1, last - 1) \o
                        SubSeq(ota_history, last + 1, Len(ota_history))
                   ELSE ota_history
    IN  /\ call' = [op |-> "rollback_service",
                    arg |-> [service_name |-> service_name]]
        /\ result' = r
        /\ ota_history' = history
        /\ ota_log_file' = IF history = ota_history
                           THEN ota_log_file ELSE File(history)
        /\ UNCHANGED <<registry_file, clock, injected>>
        /\ UNCHANGED <<registryVars, app_files, pipelineVars, secondVars,
                       serviceVars>>

\* rollback_service(service_name)
rollback_service(service_name) ==
    /\ call' = [op |-> "rollback_service",
                arg |-> [service_name |-> service_name]]
    /\ result' = RollbackResult(ota_history, service_name)
    /\ UNCHANGED <<registry_file, ota_log_file, ota_history, clock, injected>>
    /\ UNCHANGED <<registryVars, app_files, pipelineVars, secondVars,
                   serviceVars>>

-----------------------------------------------------------------------------
(* The specification *)

\* start_time is None, or the datetime read at clock value t.
NoTime == <<>>

Time(t) == <<t>>

\* No generate_application call is in progress.
NotRunning == [pc |-> "idle", runs |-> 0, trace |-> <<>>]

\* OTAManager(app_dir) on an empty application directory.
Init ==
    /\ registry_file = NoFile
    /\ ota_log_file = NoFile
    /\ ota_history = LoadOtaHistory(NoFile)
    /\ clock = 0
    /\ call = [op |-> "__init__", arg |-> EmptyDict]
    /\ result = EmptyDict
    /\ injected = <<>>
    /\ instances = <<>>
    /\ service_metadata = EmptyDict
    /\ saved_file = NoFile
    /\ saved_metadata = EmptyDict
    /\ app_files = EmptyDict
    /\ generation = NotRunning
    /\ second_history = <<>>
    /\ initialized = FALSE
    /\ start_time = NoTime

\* The calls made on the OTAManager.
Next ==
    \/ \E def \in ServiceDefinitions : inject_service(def)
    \/ get_ota_history
    \/ \E service_name \in Names \cup {UnknownName} :
            rollback_service(service_name)

Spec == Init /\ [][Next]_vars

-----------------------------------------------------------------------------
(* Definitions shared by the properties *)

\* The records of service_registry.json.
PersistedServices ==
    IF registry_file.exists THEN registry_file.content["services"] ELSE <<>>

\* The journal of ota_history.json.
PersistedJournal ==
    IF ota_log_file.exists THEN ota_log_file.content ELSE <<>>

\* The positions of the registry records named n.
RecordsNamed(n) ==
    {i \in DOMAIN PersistedServices : PersistedServices[i]["name"] = n}

\* The names given by the successful inject_service calls so far.
InjectedNames == {injected[i]["name"] : i \in DOMAIN injected}

\* The successful inject_service calls for n, in call order.
CallsFor(n) == SelectSeq(injected, LAMBDA c : c["name"] = n)

\* The journal records of n, in journal order.
JournalFor(n) == SelectSeq(ota_history, LAMBDA h : h["service_name"] = n)

GivenVersion(c) == IF "version" \in DOMAIN c THEN c["version"] ELSE "1.0.0"

IsSuccess(r) == "status" \in DOMAIN r /\ r["status"] = "success"

IsFailure(r) == "status" \in DOMAIN r /\ r["status"] = "failed"

IsPrefix(s, t) == Len(s) <= Len(t) /\ SubSeq(t, 1, Len(s)) = s

-----------------------------------------------------------------------------
(* C1 *)

\* C1: after any sequence of successful inject_service calls from an empty
\* application directory, service_registry.json holds exactly one record for
\* each distinct name injected and no other record; no file is written
\* before the first injection.
C1_OneRecordPerName ==
    /\ registry_file.exists <=> injected # <<>>
    /\ \A n \in InjectedNames : Cardinality(RecordsNamed(n)) = 1
    /\ \A i \in DOMAIN PersistedServices :
            PersistedServices[i]["name"] \in InjectedNames

\* One name injected at least twice and another name injected as well.
C1_Witness ==
    /\ Len(injected) >= 3
    /\ Cardinality(InjectedNames) = 2
    /\ Len(PersistedServices) = 2

-----------------------------------------------------------------------------
(* C2 *)

\* C2: for every name, the journal holds one record per successful
\* inject_service call for that name, in call order and with the version of
\* that call ("1.0.0" if it gave none); the first is an "inject" and every
\* later one an "update"; the registry record of the name carries the
\* version of the last call; and the result of a successful call reports
\* "inject" for the first call of its name and "update" for a later one.
C2_InjectThenUpdate ==
    /\ \A n \in Names :
        LET c == CallsFor(n)
            j == JournalFor(n)
        IN  /\ Len(j) = Len(c)
            /\ \A k \in 1..Len(c) :
                /\ j[k]["operation"] = (IF k = 1 THEN "inject" ELSE "update")
                /\ j[k]["version"] = GivenVersion(c[k])
            /\ Len(c) >= 1 =>
                /\ Cardinality(RecordsNamed(n)) = 1
                /\ \A i \in RecordsNamed(n) :
                    PersistedServices[i]["version"] = GivenVersion(c[Len(c)])
    /\ (call.op = "inject_service" /\ IsSuccess(result)) =>
            result["operation"] =
                (IF Len(CallsFor(call.arg["name"])) = 1
                 THEN "inject" ELSE "update")

\* A name injected with a version and then updated by a call that gives
\* none, which was the last call made.
C2_Witness ==
    \E n \in Names :
        LET c == CallsFor(n)
        IN  /\ Len(c) >= 2
            /\ "version" \in DOMAIN c[1]
            /\ "version" \notin DOMAIN c[Len(c)]
            /\ call.op = "inject_service"
            /\ IsSuccess(result)
            /\ call.arg["name"] = n
            /\ "version" \notin DOMAIN call.arg

-----------------------------------------------------------------------------
(* C3 *)

\* C3: the journal is append-only: every step of inject_service,
\* rollback_service or get_ota_history leaves the earlier journal as a prefix
\* of the later one, a successful inject_service adds exactly one entry and
\* every other call adds none.
C3_AppendOnly ==
    [][ /\ IsPrefix(ota_history, ota_history')
        /\ Len(ota_history') =
            Len(ota_history) +
            (IF call'.op = "inject_service" /\ IsSuccess(result')
             THEN 1 ELSE 0) ]_vars

\* Three injections were journaled and a later rollback succeeded.
C3_Witness ==
    /\ Len(ota_history) = 3
    /\ call.op = "rollback_service"
    /\ IsSuccess(result)

-----------------------------------------------------------------------------
(* C4 *)

\* C4: an inject_service call whose definition has a name but lacks
\* "language" and/or "interfaces" (such as {name: "Y"}) returns {status:
\* failed, error: "Invalid service definition"} without raising and leaves
\* the registry file and the journal, in memory and on disk, unchanged.
C4_MissingFieldRejected ==
    [][ ( /\ call'.op = "inject_service"
          /\ "name" \in DOMAIN call'.arg
          /\ ~({"language", "interfaces"} \subseteq DOMAIN call'.arg) )
        => /\ result' = [ status |-> "failed",
                          error  |-> "Invalid service definition" ]
           /\ UNCHANGED <<registry_file, ota_log_file, ota_history>> ]_vars

-----------------------------------------------------------------------------
(* C5 *)

\* C5: an inject_service call whose definition has name, language and
\* interfaces but a language outside {cpp, c, rust, java, python} returns a
\* result with status failed and changes neither the registry nor the
\* journal.
C5_UnsupportedLanguageRejected ==
    [][ ( /\ call'.op = "inject_service"
          /\ {"name", "language", "interfaces"} \subseteq DOMAIN call'.arg
          /\ call'.arg["language"] \notin
                {"cpp", "c", "rust", "java", "python"} )
        => /\ IsFailure(result')
           /\ UNCHANGED <<registry_file, ota_log_file, ota_history>> ]_vars

\* An unsupported language was rejected for a service that is registered
\* and journaled.
C5_Witness ==
    /\ call.op = "inject_service"
    /\ {"name", "language", "interfaces"} \subseteq DOMAIN call.arg
    /\ call.arg["language"] = UnsupportedLanguage
    /\ IsFailure(result)
    /\ RecordsNamed(call.arg["name"]) # {}
    /\ Len(JournalFor(call.arg["name"])) >= 1

-----------------------------------------------------------------------------
(* C6 *)

\* C6 as stated: the failure result of inject_service carries the error
\* "Invalid service definition" for a missing required field and
\* "Unsupported language '<lang>'" for an unsupported language.
C6_DistinctErrors ==
    (call.op = "inject_service" /\ IsFailure(result)) =>
        result["error"] =
            (IF {"name", "language", "interfaces"} \subseteq DOMAIN call.arg
             THEN "Unsupported language '" \o call.arg["language"] \o "'"
             ELSE "Invalid service definition")

\* C6 as amended: the failure result does not distinguish the validation
\* failures. A definition with name and language that lacks interfaces or
\* has an unsupported language yields exactly {status: failed, error:
\* "Invalid service definition"}, and inject_service returns no other
\* failure result.
C6_SingleError ==
    /\ ( /\ call.op = "inject_service"
         /\ {"name", "language"} \subseteq DOMAIN call.arg
         /\ \/ "interfaces" \notin DOMAIN call.arg
            \/ call.arg["language"] \notin
                    {"cpp", "c", "rust", "java", "python"} )
       => result = [ status |-> "failed",
                     error  |-> "Invalid service definition" ]
    /\ (call.op = "inject_service" /\ IsFailure(result))
       => result = [ status |-> "failed",
                     error  |-> "Invalid service definition" ]

\* A complete definition with an unsupported language got the error of an
\* invalid definition.
C6_Witness ==
    /\ call.op = "inject_service"
    /\ {"name", "language", "interfaces"} \subseteq DOMAIN call.arg
    /\ call.arg["language"] = UnsupportedLanguage
    /\ result["error"] = "Invalid service definition"

-----------------------------------------------------------------------------
(* C7 *)

\* The positions of the journal records of n.
JournalPositions(n) ==
    {i \in DOMAIN ota_history : ota_history[i]["service_name"] = n}

Max(S) == CHOOSE m \in S : \A x \in S : x <= m

\* C7: rollback_service(name) returns {status: failed, error: "No previous
\* version available"} exactly when the journal holds fewer than two records
\* for name; otherwise it returns success, and rolled_back_to is the version
\* of the second-to-last journal record of name.
C7_RollbackEligibility ==
    call.op = "rollback_service" =>
        LET n == call.arg["service_name"]
            I == JournalPositions(n)
        IN  IF Cardinality(I) < 2
            THEN result = [ status |-> "failed",
                            error  |-> "No previous version available" ]
            ELSE result =
                    [ status         |-> "success",
                      service_name   |-> n,
                      rolled_back_to |->
                        ota_history[Max(I \ {Max(I)})]["version"] ]

\* A rollback succeeded, the version it reports is not the latest one of
\* the service, and the latest journal record belongs to another service.
C7_Witness ==
    /\ call.op = "rollback_service"
    /\ IsSuccess(result)
    /\ LET n == call.arg["service_name"]
       IN  /\ ota_history[Len(ota_history)]["service_name"] # n
           /\ ota_history[Max(JournalPositions(n))]["version"] #
                    result["rolled_back_to"]

-----------------------------------------------------------------------------
(* C8 *)

\* C8: rollback_service only reports: a call, successful or not, leaves the
\* journal in memory, ota_history.json and service_registry.json unchanged,
\* and a second rollback_service call for the same name right after the
\* first returns the same result.
C8_RollbackReportsOnly ==
    [][ call'.op = "rollback_service" =>
            /\ UNCHANGED <<ota_history, ota_log_file, registry_file>>
            /\ (call.op = "rollback_service" /\ call.arg = call'.arg)
                    => result' = result ]_vars

\* A rollback succeeded with two services registered and the journal on
\* disk equal to the one in memory.
C8_Witness ==
    /\ call.op = "rollback_service"
    /\ IsSuccess(result)
    /\ Len(PersistedServices) = 2
    /\ PersistedJournal = ota_history

-----------------------------------------------------------------------------
(* C9 *)

\* C9 as stated: a successful rollback_service appends one new record for
\* the rolled-back service to the journal and keeps the earlier records.
C9_RollbackAppends ==
    [][ (call'.op = "rollback_service" /\ IsSuccess(result')) =>
            /\ Len(ota_history') = Len(ota_history) + 1
            /\ IsPrefix(ota_history, ota_history')
            /\ ota_history'[Len(ota_history')]["service_name"] =
                    call'.arg["service_name"] ]_vars

\* C9 as amended: a successful rollback_service appends no record and
\* erases none: the journal in memory and ota_history.json are the same
\* after the call as before it.
C9_RollbackKeepsJournal ==
    [][ (call'.op = "rollback_service" /\ IsSuccess(result')) =>
            /\ ota_history' = ota_history
            /\ ota_log_file' = ota_log_file ]_vars

\* A rollback succeeded for a service with journal records, next to
\* records of another service, and all of them are still on disk.
C9_Witness ==
    /\ call.op = "rollback_service"
    /\ IsSuccess(result)
    /\ Len(JournalFor(call.arg["service_name"])) >= 2
    /\ Len(PersistedJournal) > Len(JournalFor(call.arg["service_name"]))

-----------------------------------------------------------------------------
(* C10 *)

\* The fields an update may change.
UpdatedFields == {"version", "updated_via_ota", "last_update"}

\* C10: an inject_service call classified as "update" keeps the number of
\* registry records, changes nothing but version, updated_via_ota and
\* last_update on the record of its name (language, interfaces,
\* dependencies, injected_via_ota and injection_date keep their values) and
\* leaves every other record unchanged.
C10_UpdateFrame ==
    [][ ( /\ call'.op = "inject_service"
          /\ IsSuccess(result')
          /\ result'["operation"] = "update" )
        => LET old == PersistedServices
               new == PersistedServices'
           IN  /\ Len(new) = Len(old)
               /\ \A i \in DOMAIN old :
                    IF old[i]["name"] = call'.arg["name"]
                    THEN /\ Without(new[i], UpdatedFields) =
                                Without(old[i], UpdatedFields)
                         /\ { "language", "interfaces", "dependencies",
                              "injected_via_ota", "injection_date" }
                                \subseteq DOMAIN new[i]
                         /\ new[i]["version"] = GivenVersion(call'.arg)
                         /\ new[i]["updated_via_ota"] = TRUE
                         /\ "last_update" \in DOMAIN new[i]
                    ELSE new[i] = old[i] ]_vars

\* An update whose definition gives another language, other interfaces and
\* other dependencies than the record it updates, with a second service
\* registered.
C10_Witness ==
    /\ call.op = "inject_service"
    /\ IsSuccess(result)
    /\ result["operation"] = "update"
    /\ Len(PersistedServices) = 2
    /\ \E i \in RecordsNamed(call.arg["name"]) :
        /\ PersistedServices[i]["language"] # call.arg["language"]
        /\ PersistedServices[i]["interfaces"] # call.arg["interfaces"]
        /\ PersistedServices[i]["dependencies"] #
                DictGet(call.arg, "dependencies", <<>>)
        /\ PersistedServices[i]["version"] = GivenVersion(call.arg)

-----------------------------------------------------------------------------
(* ServiceRegistry (src/framework/soa/service_registry.py)                 *)
(*                                                                         *)
(* self.services is the variable instances: the sequence of its entries  *)
(* in insertion order, the order list(self.services.keys()) returns.       *)

\* The names registered, unregistered and named as dependencies.
RegistryNames == {"X", "Y"}

\* A name that is never registered.
AbsentName == "Z"

\* The service instances handed to register.
ServiceInstances == {"i1", "i2"}

\* The metadata handed to register; a call may also give none. X with
\* the first depends on itself; X with the second depends on Y and on two
\* occurrences of a name that is never registered.
Metadatas ==
    { [dependencies |-> <<"X">>],
      [dependencies |-> <<"Z", "Y", "Z">>],
      [tags |-> <<"t">>] }

\* The path save_registry and load_registry are given: a file of their own
\* or the service_registry.json of the application directory.
OwnPath == "registry.json"
AppRegistryPath == "app/service_registry.json"

\* What a method returned.
Returned(v) == [returned |-> v]

\* list(self.services.keys())
ServiceKeys(srv) == [i \in DOMAIN srv |-> srv[i]["name"]]

\* service_name in self.services
IsRegistered(srv, service_name) ==
    \E i \in DOMAIN srv : srv[i]["name"] = service_name

\* The mutant of SetInstance that adds a second entry for a registered name.
SetInstance_Duplicate(srv, service_name, service_instance) ==
    Append(srv, [name |-> service_name, instance |-> service_instance])

\* self.services[service_name] = service_instance
\* The mutant of SetInstance that moves a name registered again to the
\* end.
SetInstance_MoveToEnd(srv, service_name, service_instance) ==
    Append(SelectSeq(srv, LAMBDA e : e["name"] # service_name),
           [name |-> service_name, instance |-> service_instance])

SetInstance(srv, service_name, service_instance) ==
    IF IsRegistered(srv, service_name)
    THEN [i \in DOMAIN srv |->
            IF srv[i]["name"] = service_name
            THEN [name |-> service_name, instance |-> service_instance]
            ELSE srv[i]]
    ELSE Append(srv, [name |-> service_name, instance |-> service_instance])

\* del self.services[service_name]
DelInstance(srv, service_name) ==
    SelectSeq(srv, LAMBDA e : e["name"] # service_name)

\* del d[k]
DictDel(d, k) == [x \in DOMAIN d \ {k} |-> d[x]]

\* metadata or {}
MetadataOrEmpty(arg) ==
    IF "metadata" \in DOMAIN arg THEN arg["metadata"] ELSE EmptyDict

\* The arguments of a register call: metadata is optional.
RegisterCalls ==
    { [service_name |-> n, service_instance |-> i] @@ m :
        n \in RegistryNames, i \in ServiceInstances,
        m \in Optional("metadata", Metadatas) }

\* ServiceRegistry()
new_registry ==
    /\ call' = [op |-> "ServiceRegistry", arg |-> EmptyDict]
    /\ result' = EmptyDict
    /\ instances' = <<>>
    /\ service_metadata' = EmptyDict
    /\ UNCHANGED <<saved_file, saved_metadata, otaVars, app_files>>
    /\ UNCHANGED <<pipelineVars, secondVars, serviceVars>>

\* register(service_name, service_instance, metadata)
register(arg) ==
    /\ call' = [op |-> "register", arg |-> arg]
    /\ instances' =
            SetInstance(instances, arg["service_name"], arg["service_instance"])
    /\ service_metadata' =
            DictSet(service_metadata, arg["service_name"], MetadataOrEmpty(arg))
    /\ result' = Returned("None")
    /\ UNCHANGED <<saved_file, saved_metadata, otaVars, app_files>>
    /\ UNCHANGED <<pipelineVars, secondVars, serviceVars>>

\* unregister(service_name)
unregister(service_name) ==
    /\ call' = [op |-> "unregister", arg |-> [service_name |-> service_name]]
    /\ IF ~IsRegistered(instances, service_name)
       THEN /\ result' = Returned(FALSE)
            /\ UNCHANGED <<instances, service_metadata>>
       ELSE IF service_name \notin DOMAIN service_metadata
       THEN \* del self.service_metadata[service_name], after the instance
            \* was deleted
            /\ instances' = DelInstance(instances, service_name)
            /\ result' = Raised("KeyError", service_name)
            /\ UNCHANGED service_metadata
       ELSE /\ instances' = DelInstance(instances, service_name)
            /\ service_metadata' = DictDel(service_metadata, service_name)
            /\ result' = Returned(TRUE)
    /\ UNCHANGED <<saved_file, saved_metadata, otaVars, app_files>>
    /\ UNCHANGED <<pipelineVars, secondVars, serviceVars>>

\* list_services()
list_services ==
    /\ call' = [op |-> "list_services", arg |-> EmptyDict]
    /\ result' = Returned(ServiceKeys(instances))
    /\ UNCHANGED <<registryVars, otaVars, app_files>>
    /\ UNCHANGED <<pipelineVars, secondVars, serviceVars>>

\* The graph get_dependency_graph builds.
DependencyGraph(metadata) ==
    [n \in DOMAIN metadata |-> DictGet(metadata[n], "dependencies", <<>>)]

\* get_dependency_graph()
get_dependency_graph ==
    /\ call' = [op |-> "get_dependency_graph", arg |-> EmptyDict]
    /\ result' = Returned(DependencyGraph(service_metadata))
    /\ UNCHANGED <<registryVars, otaVars, app_files>>
    /\ UNCHANGED <<pipelineVars, secondVars, serviceVars>>

\* [dep for dep in dependencies if dep not in self.services]
MissingDeps(srv, dependencies) ==
    SelectSeq(dependencies, LAMBDA dep : ~IsRegistered(srv, dep))

\* The mutant of ValidateDependencies that also reports the services with
\* no missing dependency.
ValidateDependencies_KeepEmpty(srv, metadata) ==
    [n \in DOMAIN metadata |->
        MissingDeps(srv, DictGet(metadata[n], "dependencies", <<>>))]

\* The mapping validate_dependencies builds.
ValidateDependencies(srv, metadata) ==
    LET missing(n) ==
            MissingDeps(srv, DictGet(metadata[n], "dependencies", <<>>))
    IN  [n \in {x \in DOMAIN metadata : missing(x) # <<>>} |-> missing(n)]

\* validate_dependencies()
validate_dependencies ==
    /\ call' = [op |-> "validate_dependencies", arg |-> EmptyDict]
    /\ result' = Returned(ValidateDependencies(instances, service_metadata))
    /\ UNCHANGED <<registryVars, otaVars, app_files>>
    /\ UNCHANGED <<pipelineVars, secondVars, serviceVars>>

\* The registry_data that save_registry dumps: the names as a JSON array of
\* strings and the metadata map. The instances are not written.
RegistryData(srv, metadata) ==
    [ services |-> [i \in DOMAIN srv |-> JsonString(srv[i]["name"])],
      metadata |-> metadata ]

\* save_registry(filepath)
save_registry(filepath) ==
    /\ call' = [op |-> "save_registry", arg |-> [filepath |-> filepath]]
    /\ result' = Returned("None")
    /\ IF filepath = AppRegistryPath
       THEN /\ registry_file' = File(RegistryData(instances, service_metadata))
            /\ UNCHANGED saved_file
       ELSE /\ saved_file' = File(RegistryData(instances, service_metadata))
            /\ UNCHANGED registry_file
    /\ saved_metadata' = service_metadata
    /\ UNCHANGED <<instances, service_metadata, ota_log_file, ota_history,
                   clock, injected, app_files, pipelineVars, secondVars,
                   serviceVars>>

\* The file at filepath.
FileAt(filepath) ==
    IF filepath = AppRegistryPath THEN registry_file ELSE saved_file

\* The mutant of LoadedMetadata that keeps the metadata the file does not
\* name.
LoadedMetadata_Merge(content, metadata) ==
    DictGet(content, "metadata", EmptyDict) @@ metadata

\* registry_data.get('metadata', {}): what load_registry assigns to
\* self.service_metadata, whatever it held.
LoadedMetadata(content, metadata) == DictGet(content, "metadata", EmptyDict)

\* load_registry(filepath)
load_registry(filepath) ==
    /\ call' = [op |-> "load_registry", arg |-> [filepath |-> filepath]]
    /\ IF ~FileAt(filepath).exists
       THEN \* open(filepath, 'r')
            /\ result' = Raised("FileNotFoundError", filepath)
            /\ UNCHANGED service_metadata
       ELSE /\ service_metadata' =
                    LoadedMetadata(FileAt(filepath).content, service_metadata)
            /\ result' = Returned("None")
    /\ UNCHANGED <<instances, saved_file, saved_metadata, otaVars, app_files>>
    /\ UNCHANGED <<pipelineVars, secondVars, serviceVars>>

\* A ServiceRegistry and the file it saves to and loads from.
InitRegistry == Init

NextRegistry ==
    \/ new_registry
    \/ \E arg \in RegisterCalls : register(arg)
    \/ \E service_name \in RegistryNames \cup {AbsentName} :
            unregister(service_name)
    \/ list_services
    \/ get_dependency_graph
    \/ validate_dependencies
    \/ save_registry(OwnPath)
    \/ load_registry(OwnPath)

SpecRegistry == InitRegistry /\ [][NextRegistry]_vars

-----------------------------------------------------------------------------
(* Definitions shared by the properties of the ServiceRegistry *)

\* The names that have an instance: the names list_services returns.
RegisteredNames == {instances[i]["name"] : i \in DOMAIN instances}

\* The positions of the entries of self.services named n.
EntriesNamed(srv, n) == {i \in DOMAIN srv : srv[i]["name"] = n}

\* The dependencies the metadata map declares for n, none if it has no
\* metadata.
DeclaredDeps(n) ==
    IF n \in DOMAIN service_metadata
    THEN DictGet(service_metadata[n], "dependencies", <<>>)
    ELSE <<>>

\* The first i elements of deps that are not registered names, in order.
RECURSIVE Unregistered(_, _)
Unregistered(deps, i) ==
    IF i = 0
    THEN <<>>
    ELSE IF deps[i] \in RegisteredNames
         THEN Unregistered(deps, i - 1)
         ELSE Append(Unregistered(deps, i - 1), deps[i])

-----------------------------------------------------------------------------
(* C11 *)

\* C11: the registry never holds two entries with the same name, and a
\* register call leaves exactly one entry for its name, carrying the
\* instance and the metadata of the call ({} if it gave none); if the name
\* was registered already, the registered names and their order are as
\* before.
C11_RegisterUnique ==
    [][ /\ \A n \in RegisteredNames' :
                Cardinality(EntriesNamed(instances', n)) = 1
        /\ call'.op = "register" =>
            LET n == call'.arg["service_name"]
            IN  /\ \A i \in EntriesNamed(instances', n) :
                    instances'[i]["instance"] = call'.arg["service_instance"]
                /\ n \in DOMAIN service_metadata'
                /\ service_metadata'[n] =
                    (IF "metadata" \in DOMAIN call'.arg
                     THEN call'.arg["metadata"] ELSE EmptyDict)
                /\ n \in RegisteredNames =>
                    /\ Len(instances') = Len(instances)
                    /\ ServiceKeys(instances') = ServiceKeys(instances) ]_vars

\* The last call registered, with another instance and metadata, the name
\* that was registered first of two.
C11_Witness ==
    /\ call.op = "register"
    /\ Len(instances) = 2
    /\ instances[1]["name"] = call.arg["service_name"]
    /\ instances[1]["instance"] = "i2"
    /\ "dependencies" \in DOMAIN service_metadata[call.arg["service_name"]]

-----------------------------------------------------------------------------
(* C12 *)

-----------------------------------------------------------------------------
(* C13 *)

\* C13: validate_dependencies returns an empty mapping if and only if every
\* dependency named in the metadata of a registered service is a registered
\* service name.
C13_DependencyCompleteness ==
    call.op = "validate_dependencies" =>
        ( result["returned"] = EmptyDict
          <=> \A n \in RegisteredNames :
                \A i \in DOMAIN DeclaredDeps(n) :
                    DeclaredDeps(n)[i] \in RegisteredNames )

-----------------------------------------------------------------------------
(* C14 *)

\* C14: for each registered service, validate_dependencies reports exactly
\* the declared dependencies that are not registered, in declared order
\* and with repetitions, and leaves the service out if there is none; a
\* registered service that depends on itself or on a registered service
\* that depends on it is reported with no missing dependency for that.
C14_MissingSubsequence ==
    call.op = "validate_dependencies" =>
        \A n \in RegisteredNames :
            LET deps == DeclaredDeps(n)
                miss == Unregistered(deps, Len(deps))
                r    == result["returned"]
            IN  /\ n \in DOMAIN r <=> miss # <<>>
                /\ n \in DOMAIN r => r[n] = miss

\* X depends on Y and twice on the unregistered Z, Y depends on X: the
\* cycle is accepted and only X is reported, with both occurrences of Z.
C14_Witness ==
    /\ call.op = "validate_dependencies"
    /\ RegisteredNames = {"X", "Y"}
    /\ DeclaredDeps("X") = <<"Z", "Y", "Z">>
    /\ DeclaredDeps("Y") = <<"X">>
    /\ result["returned"] = [n \in {"X"} |-> <<"Z", "Z">>]

-----------------------------------------------------------------------------
(* C15 *)

\* C15: get_dependency_graph has exactly the registered names (those
\* list_services returns) as keys and maps each to the dependencies of its
\* metadata.
C15_GraphOfRegistered ==
    call.op = "get_dependency_graph" =>
        /\ DOMAIN result["returned"] = RegisteredNames
        /\ \A n \in RegisteredNames :
                result["returned"][n] = DeclaredDeps(n)

-----------------------------------------------------------------------------
(* C16 *)

-----------------------------------------------------------------------------
(* ServiceRegistry and OTAManager on the same service_registry.json *)

\* The register calls and the service definitions of the runs in which a
\* ServiceRegistry saves to, and loads from, the registry file of the
\* application directory an OTAManager works on.
SharedRegisterCalls ==
    { [service_name |-> n, service_instance |-> "i1",
       metadata |-> [dependencies |-> <<"X">>]] : n \in RegistryNames }

SharedDefinitions ==
    { [name |-> n, language |-> "rust", interfaces |-> <<"a">>] :
        n \in Names }

InitShared == Init

NextShared ==
    \/ \E arg \in SharedRegisterCalls : register(arg)
    \/ \E service_name \in RegistryNames : unregister(service_name)
    \/ save_registry(AppRegistryPath)
    \/ load_registry(AppRegistryPath)
    \/ \E def \in SharedDefinitions : inject_service(def)

SpecShared == InitShared /\ [][NextShared]_vars

-----------------------------------------------------------------------------
(* C17 *)

\* C17: when service_registry.json lists a service as save_registry wrote
\* it, OTAManager.inject_service of a valid definition with that name
\* finds the service existing: it succeeds with operation "update".
C17_SharedRegistryShape ==
    ( /\ call.op = "inject_service"
      /\ registry_file.exists
      /\ \E i \in DOMAIN registry_file.content["services"] :
            registry_file.content["services"][i] =
                JsonString(call.arg["name"]) )
    => /\ IsSuccess(result)
       /\ result["operation"] = "update"

-----------------------------------------------------------------------------
(* C18 *)

\* C18: unregister(name) never raises; if name is absent it returns False
\* and leaves both maps unchanged, otherwise it returns True, removes name
\* from the instance map and from the metadata map and leaves all other
\* entries unchanged.
C18_UnregisterTotal ==
    [][ call'.op = "unregister" =>
            LET n == call'.arg["service_name"]
            IN  IF n \notin RegisteredNames
                THEN /\ result' = Returned(FALSE)
                     /\ UNCHANGED <<instances, service_metadata>>
                ELSE /\ result' = Returned(TRUE)
                     /\ instances' =
                            SelectSeq(instances, LAMBDA e : e["name"] # n)
                     /\ DOMAIN service_metadata' =
                            DOMAIN service_metadata \ {n}
                     /\ \A m \in DOMAIN service_metadata' :
                            service_metadata'[m] = service_metadata[m] ]_vars

-----------------------------------------------------------------------------
(* SDVOrchestrator.inject_ota_service *)

\* The largest number of records service_registry.json is let to hold
\* when inject_ota_service appends one.
MaxRecords == 3

\* The languages GenerationEngine has a generator for.
GeneratorLanguages == {"cpp", "c", "rust", "java"}

\* The languages whose code goes through enforce_misra_compliance.
MisraLanguages == {"cpp", "c"}

\* The service definitions handed to inject_ota_service: a language with
\* and without MISRA enforcement, one with no generator, and definitions
\* that lack name or language.
OrchestratorDefinitions ==
    { [name |-> n, language |-> l, interfaces |-> <<"a">>] :
        n \in Names, l \in {"cpp", "rust", "python"} }
    \cup { [name |-> "Y", interfaces |-> <<"a">>],
           [language |-> "rust", interfaces |-> <<"a">>] }

\* The service definitions handed to OTAManager.inject_service in the
\* runs of the orchestrator.
ManagerDefinitions ==
    { [name |-> n, language |-> "rust", interfaces |-> <<"a">>] :
        n \in Names }

\* _get_extension
GetExtension(language) ==
    CASE language = "cpp"    -> "cpp"
      [] language = "c"      -> "c"
      [] language = "rust"   -> "rs"
      [] language = "java"   -> "java"
      [] language = "python" -> "py"
      [] OTHER               -> "txt"

\* The file _save_service_code writes, under the application directory.
CodePath(service_name, language) ==
    "services/" \o service_name \o "/" \o service_name \o "."
        \o GetExtension(language)

\* The file _save_service_tests writes, under the application directory.
TestsPath(service_name, language) ==
    "tests/" \o service_name \o "/" \o service_name \o "_test."
        \o GetExtension(language)

\* The text generator.generate returns for a service specification.
GeneratedCode(service_spec, language) ==
    [ generator |-> IF language \in {"cpp", "c"} THEN "CppGenerator"
                    ELSE IF language = "rust" THEN "RustGenerator"
                    ELSE "JavaGenerator",
      service   |-> service_spec["name"] ]

\* The dict jules.enforce_misra_compliance returns.
EnforceMisraCompliance(code, language) ==
    [refactored_code |-> [refactored |-> code, language |-> language]]

\* The text jules.generate_unit_tests returns.
GenerateUnitTests(code, language, functions) ==
    [tests_of |-> code, language |-> language, functions |-> functions]

\* The mutant of ServiceCode that never calls the enforcer.
ServiceCode_Raw(def) == GeneratedCode(def, DictGet(def, "language", "cpp"))

\* The code inject_ota_service saves and hands to the test generator.
ServiceCode(def) ==
    LET code == GeneratedCode(def, DictGet(def, "language", "cpp"))
    IN  IF def["language"] \in MisraLanguages
        THEN EnforceMisraCompliance(code, def["language"])["refactored_code"]
        ELSE code

\* The registry _update_service_registry writes.
UpdateServiceRegistry(regfile, service) ==
    LET registry == IF regfile.exists
                    THEN regfile.content
                    ELSE [services |-> <<>>]
    IN  DictSet(registry, "services",
            Append(registry["services"],
                   [ name             |-> service["name"],
                     language         |-> service["language"],
                     version          |-> "1.0.0",
                     injected_via_ota |-> TRUE ]))

\* inject_ota_service(app_name, service_definition), app_name the
\* application directory of the OTAManager.
inject_ota_service(def) ==
    /\ call' = [op |-> "inject_ota_service", arg |-> def]
    /\ IF "name" \notin DOMAIN def
       THEN \* print(f"... '{service_definition['name']}'...")
            /\ result' = Raised("KeyError", "name")
            /\ UNCHANGED <<registry_file, app_files>>
       ELSE IF DictGet(def, "language", "cpp") \notin GeneratorLanguages
       THEN \* generate_service_code
            /\ result' = Raised("ValueError",
                    "Unsupported language: " \o def["language"])
            /\ UNCHANGED <<registry_file, app_files>>
       ELSE IF "language" \notin DOMAIN def
       THEN \* if service_definition['language'] in ['cpp', 'c']
            /\ result' = Raised("KeyError", "language")
            /\ UNCHANGED <<registry_file, app_files>>
       ELSE LET code  == ServiceCode(def)
                tests == GenerateUnitTests(code, def["language"], <<>>)
            IN  /\ Len(GetServiceRegistry(registry_file)["services"])
                        < MaxRecords
                /\ app_files' =
                       DictSet(DictSet(app_files,
                           CodePath(def["name"], def["language"]), code),
                           TestsPath(def["name"], def["language"]), tests)
                /\ registry_file' =
                       File(UpdateServiceRegistry(registry_file, def))
                /\ result' = [ service_name    |-> def["name"],
                               status          |-> "injected",
                               code_generated  |-> TRUE,
                               tests_generated |-> TRUE ]
    /\ UNCHANGED <<ota_log_file, ota_history, clock, injected, registryVars>>
    /\ UNCHANGED <<pipelineVars, secondVars, serviceVars>>

\* An SDVOrchestrator and an OTAManager on one application directory.
InitOrchestrator == Init

NextOrchestrator ==
    \/ \E def \in OrchestratorDefinitions : inject_ota_service(def)
    \/ \E def \in ManagerDefinitions : inject_service(def)

SpecOrchestrator == InitOrchestrator /\ [][NextOrchestrator]_vars

IsInjected(r) == "status" \in DOMAIN r /\ r["status"] = "injected"

-----------------------------------------------------------------------------
(* C19 *)

\* C19: after a successful inject_ota_service, service_registry.json holds
\* exactly one record for the name of the definition, also when the name
\* had a record before.
C19_InjectionIsUpdate ==
    (call.op = "inject_ota_service" /\ IsInjected(result)) =>
        Cardinality(RecordsNamed(call.arg["name"])) = 1

-----------------------------------------------------------------------------
(* C20 *)

\* C20: a successful inject_ota_service appends exactly one OTARecord, an
\* inject or an update of the name of the definition, to ota_history.json.
C20_ThroughJournal ==
    [][ (call'.op = "inject_ota_service" /\ IsInjected(result')) =>
            /\ ota_log_file'.exists
            /\ Len(ota_log_file'.content) = Len(PersistedJournal) + 1
            /\ IsPrefix(PersistedJournal, ota_log_file'.content)
            /\ LET h == ota_log_file'.content[Len(ota_log_file'.content)]
               IN  /\ h["service_name"] = call'.arg["name"]
                   /\ h["operation"] \in {"inject", "update"} ]_vars

-----------------------------------------------------------------------------
(* C27 *)

\* The elements of s that are in the set S, in the order of s.
Restrict(s, S) == SelectSeq(s, LAMBDA x : x \in S)

Range(s) == {s[i] : i \in DOMAIN s}

\* C27: list_services returns each registered name once, and no call
\* changes the relative order of the names that stay registered, while a
\* name that was not registered comes after all that were: the names are
\* in the order of their earliest registration since they were last
\* absent.
C27_RegistrationOrder ==
    [][ LET before == ServiceKeys(instances)
            after  == ServiceKeys(instances')
        IN  /\ \/ after = before
               \/ /\ Restrict(after, Range(before))
                        = Restrict(before, Range(after))
                  /\ \A i, j \in DOMAIN after :
                        ( /\ after[i] \notin Range(before)
                          /\ after[j] \in Range(before) ) => j < i
            /\ call'.op = "list_services" =>
                    /\ Range(result'["returned"]) = Range(after)
                    /\ Len(result'["returned"]) = Cardinality(Range(after))
                    /\ Restrict(after, Range(after)) = result'["returned"] ]_vars

\* Y was registered before X and the last call registered Y again.
C27_Witness ==
    /\ call.op = "register"
    /\ call.arg["service_name"] = "Y"
    /\ ServiceKeys(instances) = <<"Y", "X">>

-----------------------------------------------------------------------------
(* C23 *)

\* C23: an inject_ota_service call that does not inject, because the
\* definition lacks name or language or its language has no generator,
\* returns a failure result and raises nothing.
C23_FailureIsResult ==
    (call.op = "inject_ota_service" /\ ~IsInjected(result)) =>
        /\ "raised" \notin DOMAIN result
        /\ IsFailure(result)

-----------------------------------------------------------------------------
(* C30 *)

\* C30: inject_ota_service of a definition that has name, language and
\* interfaces and a language OTAManager validation accepts reaches the
\* registry update and returns status "injected".
C30_ValidLanguageGenerated ==
    (call.op = "inject_ota_service" /\ ValidateService(call.arg)) =>
        IsInjected(result)

-----------------------------------------------------------------------------
(* The journal across OTAManager objects, and get_ota_history *)

\* The service definitions of the runs in which the OTAManager is
\* constructed again on its application directory.
JournalDefinitions ==
    { [name |-> n, language |-> "rust", interfaces |-> <<"a">>] @@ v :
        n \in Names, v \in Optional("version", Versions) }

\* OTAManager(app_dir), constructed on the application directory as the
\* calls so far have left it; the earlier OTAManager is used no more.
new_manager ==
    /\ call' = [op |-> "OTAManager", arg |-> EmptyDict]
    /\ result' = EmptyDict
    /\ ota_history' = LoadOtaHistory(ota_log_file)
    /\ UNCHANGED <<registry_file, ota_log_file, clock, injected>>
    /\ UNCHANGED <<registryVars, app_files, pipelineVars, secondVars,
                   serviceVars>>

\* get_ota_history(service_name): the method has no parameter but self.
get_ota_history_of(service_name) ==
    /\ call' = [op |-> "get_ota_history",
                arg |-> [service_name |-> service_name]]
    /\ result' = Raised("TypeError", "get_ota_history")
    /\ UNCHANGED <<registry_file, ota_log_file, ota_history, clock, injected>>
    /\ UNCHANGED <<registryVars, app_files, pipelineVars, secondVars,
                   serviceVars>>

InitJournal == Init

NextJournal ==
    \/ \E def \in JournalDefinitions : inject_service(def)
    \/ get_ota_history
    \/ \E service_name \in Names : get_ota_history_of(service_name)
    \/ new_manager

SpecJournal == InitJournal /\ [][NextJournal]_vars

-----------------------------------------------------------------------------
(* C24 *)

\* C24: when inject_service returns success, ota_history.json holds the
\* journal in memory and service_registry.json holds a record with the
\* name and the version of the call; an OTAManager constructed afterwards
\* on the directory has the journal of the manager before it, record for
\* record in the same order.
C24_PersistedBeforeReturn ==
    [][ /\ (call'.op = "inject_service" /\ IsSuccess(result')) =>
            /\ ota_log_file'.exists
            /\ ota_log_file'.content = ota_history'
            /\ registry_file'.exists
            /\ \E i \in DOMAIN registry_file'.content["services"] :
                LET r == registry_file'.content["services"][i]
                IN  /\ r["name"] = call'.arg["name"]
                    /\ r["version"] = DictGet(call'.arg, "version", "1.0.0")
        /\ call'.op = "OTAManager" =>
            /\ ota_history' = ota_history
            /\ Len(ota_history') = Len(injected) ]_vars

\* An OTAManager was constructed after an injection of X, an injection of
\* Y and an update.
C24_Witness ==
    /\ call.op = "OTAManager"
    /\ Len(ota_history) = 3
    /\ {ota_history[i]["service_name"] : i \in 1..3} = {"X", "Y"}

-----------------------------------------------------------------------------
(* C25 *)

\* C25 as claimed: get_ota_history called with a service name returns
\* exactly the journal records of that service, in append order.
C25_FilteredByName ==
    (call.op = "get_ota_history" /\ "service_name" \in DOMAIN call.arg) =>
        result = [history |-> JournalFor(call.arg["service_name"])]

\* C25: get_ota_history takes no service name; it returns the whole
\* journal, one record for every successful inject_service call in call
\* order, oldest first, and a call that passes a service name raises
\* TypeError.
C25_WholeJournal ==
    call.op = "get_ota_history" =>
        IF "service_name" \in DOMAIN call.arg
        THEN result = Raised("TypeError", "get_ota_history")
        ELSE /\ Len(result["history"]) = Len(injected)
             /\ \A i \in DOMAIN injected :
                    /\ result["history"][i]["service_name"]
                            = injected[i]["name"]
                    /\ \A j \in DOMAIN injected :
                        i < j => result["history"][i]["timestamp"]
                                    < result["history"][j]["timestamp"]

\* get_ota_history returned a journal of three records of two services.
C25_Witness ==
    /\ call.op = "get_ota_history"
    /\ call.arg = EmptyDict
    /\ Len(result["history"]) = 3
    /\ result["history"][1]["service_name"]
            # result["history"][3]["service_name"]

-----------------------------------------------------------------------------
(* Two OTAManager objects on one application directory *)

\* OTAManager(app_dir) for the second manager, on the directory as the
\* calls so far have left it. Until it is called the second manager is
\* the one constructed on the empty directory.
second_manager ==
    /\ call' = [op |-> "OTAManager", arg |-> [manager |-> 2]]
    /\ result' = EmptyDict
    /\ second_history' = LoadOtaHistory(ota_log_file)
    /\ UNCHANGED <<otaVars, registryVars, app_files, pipelineVars,
                   serviceVars>>

\* inject_service(def) on the second manager: the files and the clock are
\* those of the first, the journal in memory is its own.
second_inject_service(def) ==
    /\ call' = [op |-> "inject_service", arg |-> def, manager |-> 2]
    /\ IF "name" \notin DOMAIN def
       THEN /\ result' = Raised("KeyError", "name")
            /\ UNCHANGED <<registry_file, ota_log_file, second_history,
                           clock, injected>>
       ELSE IF "language" \notin DOMAIN def
       THEN /\ result' = Raised("KeyError", "language")
            /\ UNCHANGED <<registry_file, ota_log_file, second_history,
                           clock, injected>>
       ELSE IF ~ValidateService(def)
       THEN /\ result' = [status |-> "failed", error |-> ValidationError(def)]
            /\ UNCHANGED <<registry_file, ota_log_file, second_history,
                           clock, injected>>
       ELSE IF ServiceExistsRaises(registry_file, def["name"])
       THEN /\ result' = Raised("AttributeError", "get")
            /\ UNCHANGED <<registry_file, ota_log_file, second_history,
                           clock, injected>>
       ELSE LET operation  == IF ServiceExists(registry_file, def["name"])
                              THEN "update" ELSE "inject"
                t1         == clock + 1
                t2         == clock + 2
                ota_record == OtaRecord(def, operation, t2)
                history    == LogOtaOperation(second_history, ota_record)
            IN  /\ Len(injected) < MaxOps
                /\ registry_file' =
                       File(RegisterService(registry_file, def, operation, t1))
                /\ second_history' = history
                /\ ota_log_file' = File(history)
                /\ clock' = t2
                /\ injected' = Append(injected,
                       [d \in DOMAIN def \cap {"name", "version"} |-> def[d]])
                /\ result' = [ status       |-> "success",
                               operation    |-> operation,
                               service_name |-> def["name"],
                               timestamp    |-> ota_record["timestamp"] ]
    /\ UNCHANGED <<ota_history, registryVars, app_files, pipelineVars,
                   serviceVars>>

InitManagers == Init

NextManagers ==
    \/ \E def \in ManagerDefinitions \cup UnsupportedDefinitions :
            inject_service(def)
    \/ \E def \in ManagerDefinitions \cup UnsupportedDefinitions :
            second_inject_service(def)
    \/ second_manager

SpecManagers == InitManagers /\ [][NextManagers]_vars

-----------------------------------------------------------------------------
(* C29 *)

\* C29: with two OTAManager objects on the application directory,
\* ota_history.json holds one record for every inject_service call that
\* returned success, and service_registry.json holds a record for every
\* name injected.
C29_NoLostUpdate ==
    /\ Len(PersistedJournal) = Len(injected)
    /\ \A n \in InjectedNames : RecordsNamed(n) # {}

-----------------------------------------------------------------------------
(* SDVOrchestrator.generate_application *)

\* The generate_application calls of one behaviour.
MaxRuns == 1

ProblemStatements == {"vehicle health"}

\* gemini.generate_system_requirements: the stub returns the same document
\* for every problem statement. A requirement is kept with its id.
GeminiSystemRequirements(problem_statement) ==
    [ functional_requirements     |-> <<[id |-> "FR-001"], [id |-> "FR-002"],
                                        [id |-> "FR-003"]>>,
      non_functional_requirements |-> <<[id |-> "NFR-001"],
                                        [id |-> "NFR-002"]>>,
      safety_requirements         |-> <<[id |-> "SR-001"]>>,
      performance_requirements    |-> <<[id |-> "PR-001"]>> ]

\* gemini.generate_software_requirements: the stub returns the same
\* document for every input. A requirement is kept with its id and the id
\* it traces to.
GeminiSoftwareRequirements(system_requirements) ==
    [ software_requirements |->
        << [id |-> "SWR-001", traces_to |-> "FR-001"],
           [id |-> "SWR-002", traces_to |-> "FR-002"],
           [id |-> "SWR-003", traces_to |-> "FR-003"],
           [id |-> "SWR-004", traces_to |-> "NFR-002"] >> ]

\* gemini.generate_service_design: the design the stub returns.
GeminiServiceDesign ==
    [ services |->
        << [ name |-> "VehicleDataService", language |-> "cpp",
             interfaces |-> <<"getData", "subscribe", "configure">>,
             dependencies |-> <<>>,
             data_model |-> <<"VehicleState", "SensorData">> ],
           [ name |-> "DiagnosticsService", language |-> "cpp",
             interfaces |-> <<"diagnose", "getFaultCodes", "clearFaults">>,
             dependencies |-> <<"VehicleDataService">>,
             data_model |-> <<"DiagnosticCode", "FaultRecord">> ],
           [ name |-> "AnalyticsService", language |-> "rust",
             interfaces |-> <<"analyze_trends", "generate_report">>,
             dependencies |-> <<"VehicleDataService">>,
             data_model |-> <<"TrendData", "AnalyticsReport">> ],
           [ name |-> "PredictionService", language |-> "rust",
             interfaces |-> <<"predict_failure", "get_health_score">>,
             dependencies |-> <<"DiagnosticsService", "AnalyticsService">>,
             data_model |-> <<"PredictionModel", "HealthScore">> ],
           [ name |-> "OTAFeatureService", language |-> "cpp",
             interfaces |-> <<"inject_service", "update_config">>,
             dependencies |-> <<>>,
             data_model |-> <<"ServiceDescriptor", "UpdatePackage">> ] >> ]

\* Other designs a service designer may return: one whose second service
\* has a language without generator, and one without the key "services".
OtherServiceDesigns ==
    { [ services |->
          << [name |-> "X", language |-> "c", interfaces |-> <<"a">>],
             [name |-> "Y", language |-> "python", interfaces |-> <<"a">>],
             [name |-> "V", language |-> "rust", interfaces |-> <<"a">>] >> ],
      [ deployment |-> "none" ] }

ServiceDesigns == {GeminiServiceDesign} \cup OtherServiceDesigns

\* The file _save_artifact writes, under the application directory.
ArtifactPath(filename) == "artifacts/" \o filename

\* The mutant of ComplianceReport that counts the system requirements.
ComplianceReport_SystemCount(system_reqs, software_reqs, design, services) ==
    [ aspice_level |-> "Level 2",
      traceability |->
        [ system_to_software |->
              Len(DictGet(system_reqs, "functional_requirements", <<>>)),
          software_to_design |-> Len(DictGet(design, "services", <<>>)),
          design_to_code     |-> Len(services),
          code_to_tests      |-> Len(services) ],
      misra_compliance |-> "95%",
      iso26262_asil    |-> "ASIL-B",
      test_coverage    |-> "85%" ]

\* _generate_compliance_report
ComplianceReport(system_reqs, software_reqs, design, services) ==
    [ aspice_level |-> "Level 2",
      traceability |->
        [ system_to_software |->
              Len(DictGet(software_reqs, "software_requirements", <<>>)),
          software_to_design |-> Len(DictGet(design, "services", <<>>)),
          design_to_code     |-> Len(services),
          code_to_tests      |-> Len(services) ],
      misra_compliance |-> "95%",
      iso26262_asil    |-> "ASIL-B",
      test_coverage    |-> "85%" ]

\* The entry generate_application appends to generated_services.
GeneratedService(service) ==
    [ name      |-> service["name"],
      language  |-> service["language"],
      code_file |-> service["name"] \o "." \o GetExtension(service["language"]),
      test_file |-> service["name"] \o "_test."
                        \o GetExtension(service["language"]) ]

\* The services the loop of generate_application goes through.
DesignServices(design) == DictGet(design, "services", <<>>)

\* A call the running generate_application has made: what was called, on
\* what (a file or a service) and with which input.
Event(ev, about, input) == [ev |-> ev, about |-> about, input |-> input]

\* The running call goes on to pc with the local variables of upd
\* assigned, having made the call event.
Proceed(pc, upd, event) ==
    generation' = ("pc" :> pc) @@ ("trace" :> Append(generation.trace, event))
                    @@ upd @@ generation

\* The mutant of AfterService that leaves the loop before the last
\* service.
AfterService_SkipLast(design, k) ==
    IF k + 1 < Len(DesignServices(design)) THEN "service" ELSE "phase5"

\* The position after the services up to the k-th are done.
AfterService(design, k) ==
    IF k < Len(DesignServices(design)) THEN "service" ELSE "phase5"

\* The mutant of Abort that removes the files written so far.
Abort_RollBack(exception, key, event) ==
    /\ result' = Raised(exception, key)
    /\ generation' = [ pc    |-> "idle",
                       runs  |-> generation.runs,
                       trace |-> Append(generation.trace, event) ]
    /\ app_files' = EmptyDict

\* An exception leaves generate_application: nothing is caught and
\* nothing written is removed.
Abort(exception, key, event) ==
    /\ result' = Raised(exception, key)
    /\ generation' = [ pc    |-> "idle",
                       runs  |-> generation.runs,
                       trace |-> Append(generation.trace, event) ]
    /\ UNCHANGED app_files

\* What no step of generate_application touches.
restVars == <<call, otaVars, registryVars, secondVars, serviceVars>>

\* generate_application(problem_statement, app_name) is called.
generate_application(problem_statement) ==
    /\ generation.pc = "idle"
    /\ generation.runs < MaxRuns
    /\ call' = [op |-> "generate_application",
                arg |-> [problem_statement |-> problem_statement]]
    /\ result' = EmptyDict
    /\ generation' = [ pc                |-> "phase1",
                       runs              |-> generation.runs + 1,
                       trace             |-> <<>>,
                       problem_statement |-> problem_statement ]
    /\ UNCHANGED <<app_files, otaVars, registryVars, secondVars,
                   serviceVars>>

\* system_reqs = self.gemini.generate_system_requirements(problem_statement)
generate_system_requirements ==
    /\ generation.pc = "phase1"
    /\ Proceed("save1",
            [system_reqs |->
                GeminiSystemRequirements(generation.problem_statement)],
            Event("generate_system_requirements", "",
                  generation.problem_statement))
    /\ UNCHANGED <<result, app_files, restVars>>

\* self._save_artifact(app_name, "system_requirements.json", system_reqs)
save_system_requirements ==
    /\ generation.pc = "save1"
    /\ app_files' = DictSet(app_files,
            ArtifactPath("system_requirements.json"), generation.system_reqs)
    /\ Proceed("phase2", EmptyDict,
            Event("save_artifact", "system_requirements.json",
                  generation.system_reqs))
    /\ UNCHANGED <<result, restVars>>

\* software_reqs = self.gemini.generate_software_requirements(system_reqs)
generate_software_requirements ==
    /\ generation.pc = "phase2"
    /\ Proceed("save2",
            [software_reqs |->
                GeminiSoftwareRequirements(generation.system_reqs)],
            Event("generate_software_requirements", "",
                  generation.system_reqs))
    /\ UNCHANGED <<result, app_files, restVars>>

\* self._save_artifact(app_name, "software_requirements.json", software_reqs)
save_software_requirements ==
    /\ generation.pc = "save2"
    /\ app_files' = DictSet(app_files,
            ArtifactPath("software_requirements.json"),
            generation.software_reqs)
    /\ Proceed("phase3", EmptyDict,
            Event("save_artifact", "software_requirements.json",
                  generation.software_reqs))
    /\ UNCHANGED <<result, restVars>>

\* service_design = self.gemini.generate_service_design(software_reqs)
generate_service_design ==
    /\ generation.pc = "phase3"
    /\ \E design \in ServiceDesigns :
            Proceed("save3", [service_design |-> design],
                Event("generate_service_design", "",
                      generation.software_reqs))
    /\ UNCHANGED <<result, app_files, restVars>>

\* self._save_artifact(app_name, "service_design.json", service_design),
\* then generated_services = [] and the loop is entered.
save_service_design ==
    /\ generation.pc = "save3"
    /\ app_files' = DictSet(app_files,
            ArtifactPath("service_design.json"), generation.service_design)
    /\ Proceed(AfterService(generation.service_design, 0),
            [k |-> 1, generated_services |-> <<>>],
            Event("save_artifact", "service_design.json",
                  generation.service_design))
    /\ UNCHANGED <<result, restVars>>

\* The service the loop is at.
CurrentService == DesignServices(generation.service_design)[generation.k]

\* code = self.engine.generate_service_code(service)
generate_service_code ==
    /\ generation.pc = "service"
    /\ LET service  == CurrentService
           language == DictGet(service, "language", "cpp")
           event    == Event("generate_service_code", service["name"],
                             service)
       IN  IF language \notin GeneratorLanguages
           THEN Abort("ValueError", "Unsupported language: " \o language,
                      event)
           ELSE \/ /\ Proceed(IF service["language"] \in MisraLanguages
                              THEN "enforce" ELSE "save_code",
                          [code |-> GeneratedCode(service, language)], event)
                   /\ UNCHANGED <<result, app_files>>
                \/ Abort("CollaboratorError", "generate", event)
    /\ UNCHANGED restVars

\* compliance = self.jules.enforce_misra_compliance(code, service['language'])
\* code = compliance['refactored_code']
enforce_misra_compliance ==
    /\ generation.pc = "enforce"
    /\ LET service == CurrentService
           event   == Event("enforce_misra_compliance", service["name"],
                            generation.code)
       IN  \/ /\ Proceed("save_code",
                    [code |-> EnforceMisraCompliance(generation.code,
                                service["language"])["refactored_code"]],
                    event)
              /\ UNCHANGED <<result, app_files>>
           \/ Abort("CollaboratorError", "enforce_misra_compliance", event)
    /\ UNCHANGED restVars

\* self._save_service_code(app_name, service['name'], service['language'], code)
save_service_code ==
    /\ generation.pc = "save_code"
    /\ LET service == CurrentService
       IN  /\ app_files' = DictSet(app_files,
                    CodePath(service["name"], service["language"]),
                    generation.code)
           /\ Proceed("tests", EmptyDict,
                    Event("save_service_code", service["name"],
                          generation.code))
    /\ UNCHANGED <<result, restVars>>

\* tests = self.jules.generate_unit_tests(code, service['language'],
\*             software_reqs.get('software_requirements', []))
generate_unit_tests ==
    /\ generation.pc = "tests"
    /\ LET service == CurrentService
           event   == Event("generate_unit_tests", service["name"],
                            generation.code)
       IN  \/ /\ Proceed("save_tests",
                    [tests |-> GenerateUnitTests(generation.code,
                        service["language"],
                        DictGet(generation.software_reqs,
                                "software_requirements", <<>>))],
                    event)
              /\ UNCHANGED <<result, app_files>>
           \/ Abort("CollaboratorError", "generate_unit_tests", event)
    /\ UNCHANGED restVars

\* self._save_service_tests(...), then generated_services.append({...})
\* and the loop goes to the next service.
save_service_tests ==
    /\ generation.pc = "save_tests"
    /\ LET service == CurrentService
       IN  /\ app_files' = DictSet(app_files,
                    TestsPath(service["name"], service["language"]),
                    generation.tests)
           /\ Proceed(AfterService(generation.service_design, generation.k),
                    [ k |-> generation.k + 1,
                      generated_services |->
                        Append(generation.generated_services,
                               GeneratedService(service)) ],
                    Event("save_service_tests", service["name"],
                          generation.tests))
    /\ UNCHANGED <<result, restVars>>

\* Phase 5: the compliance report is built and saved, and
\* generate_application returns.
generate_compliance_report ==
    /\ generation.pc = "phase5"
    /\ LET compliance_report ==
                ComplianceReport(generation.system_reqs,
                    generation.software_reqs, generation.service_design,
                    generation.generated_services)
           event == Event("save_artifact", "compliance_report.json",
                          compliance_report)
       IN  /\ app_files' = DictSet(app_files,
                    ArtifactPath("compliance_report.json"), compliance_report)
           /\ result' =
                [ system_requirements   |-> generation.system_reqs,
                  software_requirements |-> generation.software_reqs,
                  service_design        |-> generation.service_design,
                  generated_services    |-> generation.generated_services,
                  compliance_report     |-> compliance_report ]
           /\ generation' = [ pc    |-> "idle",
                              runs  |-> generation.runs,
                              trace |-> Append(generation.trace, event) ]
    /\ UNCHANGED restVars

\* The service definitions handed to inject_ota_service on the
\* application generate_application builds.
PipelineDefinitions ==
    { [name |-> "X", language |-> l, interfaces |-> <<"a">>] :
        l \in {"c", "rust"} }

\* An SDVOrchestrator: generate_application, and inject_ota_service
\* while no generate_application is running.
InitPipeline == Init

NextPipeline ==
    \/ \E problem_statement \in ProblemStatements :
            generate_application(problem_statement)
    \/ generate_system_requirements
    \/ save_system_requirements
    \/ generate_software_requirements
    \/ save_software_requirements
    \/ generate_service_design
    \/ save_service_design
    \/ generate_service_code
    \/ enforce_misra_compliance
    \/ save_service_code
    \/ generate_unit_tests
    \/ save_service_tests
    \/ generate_compliance_report
    \/ /\ generation.pc = "idle"
       /\ \E def \in PipelineDefinitions : inject_ota_service(def)

SpecPipeline == InitPipeline /\ [][NextPipeline]_vars

-----------------------------------------------------------------------------
(* Definitions shared by the properties of generate_application *)

\* The code that is saved for a service: the generator's text, replaced
\* by the enforcer's refactored text for cpp and c.
ExpectedCode(service) ==
    LET raw == GeneratedCode(service, service["language"])
    IN  IF service["language"] \in {"cpp", "c"}
        THEN [refactored |-> raw, language |-> service["language"]]
        ELSE raw

\* The calls generate_application makes for one service, in order.
ServiceTrace(service, software_reqs) ==
    LET name == service["name"]
        raw  == GeneratedCode(service, service["language"])
        code == ExpectedCode(service)
    IN  <<Event("generate_service_code", name, service)>>
        \o (IF service["language"] \in {"cpp", "c"}
            THEN <<Event("enforce_misra_compliance", name, raw)>>
            ELSE <<>>)
        \o << Event("save_service_code", name, code),
              Event("generate_unit_tests", name, code),
              Event("save_service_tests", name,
                    [ tests_of  |-> code,
                      language  |-> service["language"],
                      functions |-> software_reqs["software_requirements"] ])
           >>

\* The calls it makes for the first n services of the design, in order.
RECURSIVE ServicesTrace(_, _, _)
ServicesTrace(design, software_reqs, n) ==
    IF n = 0
    THEN <<>>
    ELSE ServicesTrace(design, software_reqs, n - 1)
         \o ServiceTrace(DesignServices(design)[n], software_reqs)

\* The calls of a complete generate_application run, in order.
ExpectedTrace(problem_statement, design) ==
    LET sys == GeminiSystemRequirements(problem_statement)
        sw  == GeminiSoftwareRequirements(sys)
        n   == Len(DesignServices(design))
    IN  << Event("generate_system_requirements", "", problem_statement),
           Event("save_artifact", "system_requirements.json", sys),
           Event("generate_software_requirements", "", sys),
           Event("save_artifact", "software_requirements.json", sw),
           Event("generate_service_design", "", sw),
           Event("save_artifact", "service_design.json", design) >>
        \o ServicesTrace(design, sw, n)
        \o << Event("save_artifact", "compliance_report.json",
                ComplianceReport(sys, sw, design,
                    [i \in 1..n |-> GeneratedService(DesignServices(design)[i])]))
           >>

\* The file a saving call writes.
SavedPath(event) ==
    IF event.ev = "save_artifact"
    THEN ArtifactPath(event.about)
    ELSE LET gen == CHOOSE e \in Range(generation.trace) :
                        e.ev = "generate_service_code" /\ e.about = event.about
         IN  IF event.ev = "save_service_code"
             THEN CodePath(event.about, gen.input["language"])
             ELSE TestsPath(event.about, gen.input["language"])

IsSave(event) ==
    event.ev \in {"save_artifact", "save_service_code", "save_service_tests"}

-----------------------------------------------------------------------------
(* C21 *)

\* C21: the calls generate_application has made are always an initial
\* part of: system requirements generated, saved, software requirements
\* generated from them, saved, service design generated from those, saved,
\* then for each service in design order code generated, (enforced,)
\* saved, tests generated, saved, and last the compliance report saved;
\* and what each saving call wrote is in its file.
C21_PhaseOrder ==
    /\ \E problem_statement \in ProblemStatements, design \in ServiceDesigns :
            IsPrefix(generation.trace,
                     ExpectedTrace(problem_statement, design))
    /\ call.op = "generate_application" =>
            \A e \in Range(generation.trace) :
                IsSave(e) =>
                    /\ SavedPath(e) \in DOMAIN app_files
                    /\ app_files[SavedPath(e)] = e.input

\* A run over the design of five services has saved its compliance report.
C21_Witness ==
    /\ call.op = "generate_application"
    /\ generation.pc = "idle"
    /\ Len(generation.trace) = 30
    /\ generation.trace[30].about = "compliance_report.json"

-----------------------------------------------------------------------------
(* C22 *)

\* C22: when an exception leaves generate_application at the k-th service,
\* the step writes and removes no file, the code and tests of the services
\* before the k-th are in their files, no call was made for a later
\* service, no compliance report was saved, and no step of the run
\* changed service_registry.json, ota_history.json or the journal.
C22_AbortKeepsArtifacts ==
    [][ /\ call'.op = "generate_application" =>
            UNCHANGED <<registry_file, ota_log_file, ota_history>>
        /\ (call'.op = "generate_application" /\ "raised" \in DOMAIN result'
                /\ "raised" \notin DOMAIN result) =>
            LET services == DesignServices(generation.service_design)
                k        == generation.k
                trace    == generation'.trace
            IN  /\ generation'.pc = "idle"
                /\ app_files' = app_files
                /\ \A j \in 1..(k - 1) :
                    /\ CodePath(services[j]["name"], services[j]["language"])
                            \in DOMAIN app_files'
                    /\ TestsPath(services[j]["name"], services[j]["language"])
                            \in DOMAIN app_files'
                /\ \A j \in (k + 1)..Len(services) :
                    \A e \in Range(trace) : e.about # services[j]["name"]
                /\ \A e \in Range(trace) :
                        e.about # "compliance_report.json" ]_vars

\* The test generator failed at the third service of the design of five:
\* the first two services have code and tests, the third has its code.
C22_Witness ==
    /\ call.op = "generate_application"
    /\ result = Raised("CollaboratorError", "generate_unit_tests")
    /\ generation.trace[Len(generation.trace)].about = "AnalyticsService"
    /\ TestsPath("DiagnosticsService", "cpp") \in DOMAIN app_files
    /\ CodePath("AnalyticsService", "rust") \in DOMAIN app_files
    /\ TestsPath("AnalyticsService", "rust") \notin DOMAIN app_files
    /\ ArtifactPath("compliance_report.json") \notin DOMAIN app_files

-----------------------------------------------------------------------------
(* C26 *)

\* C26: when generate_application returns, the traceability counts
\* design_to_code, code_to_tests and software_to_design are the number of
\* services of the design, system_to_software is the number of software
\* requirements, and generated_services lists the services of the design
\* in design order.
C26_TraceabilityCounts ==
    (call.op = "generate_application" /\ "compliance_report" \in DOMAIN result)
    => LET services == DesignServices(result["service_design"])
           t == result["compliance_report"]["traceability"]
       IN  /\ t["design_to_code"] = Len(services)
           /\ t["code_to_tests"] = Len(services)
           /\ t["software_to_design"] = Len(services)
           /\ t["system_to_software"] =
                Len(result["software_requirements"]["software_requirements"])
           /\ Len(result["generated_services"]) = Len(services)
           /\ \A i \in DOMAIN services :
                /\ result["generated_services"][i]["name"]
                        = services[i]["name"]
                /\ result["generated_services"][i]["language"]
                        = services[i]["language"]

\* generate_application returned for the design of five services.
C26_Witness ==
    /\ call.op = "generate_application"
    /\ "compliance_report" \in DOMAIN result
    /\ result["compliance_report"]["traceability"]["design_to_code"] = 5
    /\ result["compliance_report"]["traceability"]["system_to_software"] = 4

-----------------------------------------------------------------------------
(* C28 *)

\* The service specification generate_service_code was called with for
\* the service an event is about.
ServiceOf(e) ==
    (CHOOSE g \in Range(generation.trace) :
        g.ev = "generate_service_code" /\ g.about = e.about).input

\* code is the enforcer's refactored output of the generator's text for
\* the service if its language is cpp or c, and the generator's text
\* itself otherwise.
IsCodeFor(code, service) ==
    IF service["language"] \in {"cpp", "c"}
    THEN /\ "refactored" \in DOMAIN code
         /\ code["refactored"] = GeneratedCode(service, service["language"])
    ELSE code = GeneratedCode(service, service["language"])

\* C28: in generate_application the enforcer is called for a service if
\* and only if its language is cpp or c, and the code saved and the code
\* handed to the test generator are the refactored output then and the
\* generator's output otherwise; the code and tests files
\* inject_ota_service writes hold the same.
C28_EnforcerOnlyForC ==
    /\ \A e \in Range(generation.trace) :
        /\ e.ev = "enforce_misra_compliance" =>
                ServiceOf(e)["language"] \in {"cpp", "c"}
        /\ e.ev \in {"save_service_code", "generate_unit_tests"} =>
            /\ IsCodeFor(e.input, ServiceOf(e))
            /\ ServiceOf(e)["language"] \in {"cpp", "c"} <=>
                \E f \in Range(generation.trace) :
                    f.ev = "enforce_misra_compliance" /\ f.about = e.about
    /\ (call.op = "inject_ota_service" /\ IsInjected(result)) =>
        LET code  == app_files[CodePath(call.arg["name"],
                                        call.arg["language"])]
            tests == app_files[TestsPath(call.arg["name"],
                                         call.arg["language"])]
        IN  /\ IsCodeFor(code, call.arg)
            /\ tests["tests_of"] = code

\* After a run that enforced and saved code, a service in c was injected.
C28_Witness ==
    /\ call.op = "inject_ota_service"
    /\ IsInjected(result)
    /\ call.arg["language"] = "c"
    /\ \E e \in Range(generation.trace) : e.ev = "enforce_misra_compliance"
    /\ \E e \in Range(generation.trace) :
            e.ev = "save_service_code" /\ ServiceOf(e)["language"] = "rust"

-----------------------------------------------------------------------------
(* ServiceBase: initialize, shutdown and get_status *)

\* Reads of datetime.now() by the service in one run.
MaxTime == 5

\* self.service_name
ServiceName == "VehicleDataService"

\* What a hook of the subclass does when it is called: it returns, it
\* raises an exception of class Exception, or it raises one that is a
\* BaseException only (KeyboardInterrupt, SystemExit).
HookOutcomes == {"returns", "Exception", "BaseException"}

\* except Exception as e
Caught(outcome) == outcome = "Exception"

\* The lifecycle steps leave everything but the service and the clock
\* alone.
serviceFrame ==
    <<registry_file, ota_log_file, ota_history, injected, registryVars,
      app_files, pipelineVars, secondVars>>

\* The mutant of initialize without the check of self.initialized.
initialize_Again(on_initialize) ==
    /\ call' = [op |-> "initialize",
                arg |-> [on_initialize |-> on_initialize]]
    /\ IF on_initialize = "returns"
       THEN /\ clock < MaxTime
            /\ initialized' = TRUE
            /\ start_time' = Time(clock + 1)
            /\ clock' = clock + 1
            /\ result' = Returned(TRUE)
       ELSE /\ result' = IF Caught(on_initialize)
                         THEN Returned(FALSE)
                         ELSE Raised(on_initialize, "_on_initialize")
            /\ UNCHANGED <<initialized, start_time, clock>>
    /\ UNCHANGED serviceFrame

\* initialize(), with what _on_initialize does when it is called.
initialize(on_initialize) ==
    /\ call' = [op |-> "initialize",
                arg |-> [on_initialize |-> on_initialize]]
    /\ IF initialized
       THEN \* "Service already initialized"
            /\ result' = Returned(FALSE)
            /\ UNCHANGED <<initialized, start_time, clock>>
       ELSE IF on_initialize = "returns"
       THEN /\ clock < MaxTime
            /\ initialized' = TRUE
            /\ start_time' = Time(clock + 1)
            /\ clock' = clock + 1
            /\ result' = Returned(TRUE)
       ELSE /\ result' = IF Caught(on_initialize)
                         THEN Returned(FALSE)
                         ELSE Raised(on_initialize, "_on_initialize")
            /\ UNCHANGED <<initialized, start_time, clock>>
    /\ UNCHANGED serviceFrame

\* The mutant of shutdown that clears self.initialized before it calls
\* the hook.
shutdown_Early(on_shutdown) ==
    /\ call' = [op |-> "shutdown", arg |-> [on_shutdown |-> on_shutdown]]
    /\ IF ~initialized
       THEN /\ result' = Returned(FALSE)
            /\ UNCHANGED <<initialized, start_time, clock>>
       ELSE /\ initialized' = FALSE
            /\ result' = IF on_shutdown = "returns"
                         THEN Returned(TRUE)
                         ELSE IF Caught(on_shutdown)
                         THEN Returned(FALSE)
                         ELSE Raised(on_shutdown, "_on_shutdown")
            /\ UNCHANGED <<start_time, clock>>
    /\ UNCHANGED serviceFrame

\* shutdown(), with what _on_shutdown does when it is called.
shutdown(on_shutdown) ==
    /\ call' = [op |-> "shutdown", arg |-> [on_shutdown |-> on_shutdown]]
    /\ IF ~initialized
       THEN \* "Service not initialized"
            /\ result' = Returned(FALSE)
            /\ UNCHANGED <<initialized, start_time, clock>>
       ELSE IF on_shutdown = "returns"
       THEN /\ initialized' = FALSE
            /\ result' = Returned(TRUE)
            /\ UNCHANGED <<start_time, clock>>
       ELSE /\ result' = IF Caught(on_shutdown)
                         THEN Returned(FALSE)
                         ELSE Raised(on_shutdown, "_on_shutdown")
            /\ UNCHANGED <<initialized, start_time, clock>>
    /\ UNCHANGED serviceFrame

\* get_status(): datetime.now() is read only when start_time is set.
get_status ==
    /\ call' = [op |-> "get_status", arg |-> EmptyDict]
    /\ IF start_time = NoTime
       THEN /\ result' = [ name           |-> ServiceName,
                           version        |-> "1.0.0",
                           initialized    |-> initialized,
                           start_time     |-> NoTime,
                           uptime_seconds |-> 0 ]
            /\ UNCHANGED clock
       ELSE /\ clock < MaxTime
            /\ clock' = clock + 1
            /\ result' = [ name           |-> ServiceName,
                           version        |-> "1.0.0",
                           initialized    |-> initialized,
                           start_time     |-> start_time,
                           uptime_seconds |-> (clock + 1) - start_time[1] ]
    /\ UNCHANGED <<initialized, start_time>>
    /\ UNCHANGED serviceFrame

\* ServiceBase.__init__
InitService == Init

NextService ==
    \/ \E on_initialize \in HookOutcomes : initialize(on_initialize)
    \/ \E on_shutdown \in HookOutcomes : shutdown(on_shutdown)
    \/ get_status

SpecService == InitService /\ [][NextService]_vars

-----------------------------------------------------------------------------
(* C33 *)

\* C33: initialize returns True only on a service that is not initialized
\* and whose _on_initialize returns, and then the service is initialized;
\* initialized becomes true by nothing else; initialize on an initialized
\* service and shutdown on one that is not return False and change neither
\* initialized nor start_time; on a service that is not initialized, after
\* a shutdown too, initialize with a hook that returns gives True; and
\* whenever initialized is true start_time is set.
C33_Lifecycle ==
    [][ /\ (call'.op = "initialize" /\ result' = Returned(TRUE)) =>
            /\ ~initialized
            /\ call'.arg["on_initialize"] = "returns"
            /\ initialized'
        /\ (~initialized /\ initialized') =>
            /\ call'.op = "initialize"
            /\ result' = Returned(TRUE)
        /\ (call'.op = "initialize" /\ initialized) =>
            /\ result' = Returned(FALSE)
            /\ UNCHANGED <<initialized, start_time>>
        /\ (call'.op = "shutdown" /\ ~initialized) =>
            /\ result' = Returned(FALSE)
            /\ UNCHANGED <<initialized, start_time>>
        /\ (call'.op = "shutdown" /\ result' = Returned(TRUE)) =>
            /\ initialized
            /\ ~initialized'
        /\ (call'.op = "initialize" /\ ~initialized
                /\ call'.arg["on_initialize"] = "returns") =>
            /\ result' = Returned(TRUE)
            /\ initialized'
        /\ initialized' => start_time' # NoTime ]_vars

\* The service was initialized a second time: the first time sets
\* start_time to 1, and only a shutdown makes a second time possible.
C33_Witness ==
    /\ call.op = "initialize"
    /\ result = Returned(TRUE)
    /\ initialized
    /\ start_time # NoTime
    /\ start_time[1] > 1

-----------------------------------------------------------------------------
(* C34 *)

\* C34 as stated: whenever the hook of initialize or shutdown raises, the
\* call returns False and initialized and start_time stay as they were.
C34_HookNeverEscapes ==
    [][ /\ (call'.op = "initialize" /\ ~initialized
                /\ call'.arg["on_initialize"] # "returns") =>
            /\ result' = Returned(FALSE)
            /\ UNCHANGED <<initialized, start_time>>
        /\ (call'.op = "shutdown" /\ initialized
                /\ call'.arg["on_shutdown"] # "returns") =>
            /\ result' = Returned(FALSE)
            /\ UNCHANGED <<initialized, start_time>> ]_vars

\* C34: a hook that raises never changes initialized or start_time; when
\* what it raises is of class Exception the call returns False, and when
\* it is a BaseException only the exception leaves the call.
C34_ExceptionCaught ==
    [][ /\ (call'.op = "initialize" /\ ~initialized
                /\ call'.arg["on_initialize"] # "returns") =>
            /\ UNCHANGED <<initialized, start_time>>
            /\ call'.arg["on_initialize"] = "Exception" =>
                    result' = Returned(FALSE)
            /\ call'.arg["on_initialize"] = "BaseException" =>
                    result' = Raised("BaseException", "_on_initialize")
        /\ (call'.op = "shutdown" /\ initialized
                /\ call'.arg["on_shutdown"] # "returns") =>
            /\ UNCHANGED <<initialized, start_time>>
            /\ call'.arg["on_shutdown"] = "Exception" =>
                    result' = Returned(FALSE)
            /\ call'.arg["on_shutdown"] = "BaseException" =>
                    result' = Raised("BaseException", "_on_shutdown") ]_vars

\* _on_shutdown raised an Exception on an initialized service: shutdown
\* returned False and the service is still initialized.
C34_Witness ==
    /\ call.op = "shutdown"
    /\ call.arg["on_shutdown"] = "Exception"
    /\ result = Returned(FALSE)
    /\ initialized
    /\ start_time # NoTime

-----------------------------------------------------------------------------
(* inject_service interrupted between its two writes *)

\* inject_service(def) when open(self.ota_log_file, 'w') raises OSError in
\* _save_ota_history: _register_service has written service_registry.json
\* and the record is appended to self.ota_history, ota_history.json is as
\* it was, and nothing catches the exception. The failure happens among
\* the first MaxOps inject_service calls.
inject_service_interrupted(def) ==
    /\ call' = [op |-> "inject_service", arg |-> def]
    /\ {"name", "language"} \subseteq DOMAIN def
    /\ ValidateService(def)
    /\ ~ServiceExistsRaises(registry_file, def["name"])
    /\ clock < 2 * MaxOps
    /\ LET operation  == IF ServiceExists(registry_file, def["name"])
                         THEN "update" ELSE "inject"
           t1         == clock + 1
           t2         == clock + 2
           ota_record == OtaRecord(def, operation, t2)
       IN  /\ registry_file' =
                  File(RegisterService(registry_file, def, operation, t1))
           /\ ota_history' = LogOtaOperation(ota_history, ota_record)
           /\ clock' = t2
           /\ result' = Raised("OSError", "ota_history.json")
           /\ UNCHANGED <<ota_log_file, injected>>
    /\ UNCHANGED <<registryVars, app_files, pipelineVars, secondVars,
                   serviceVars>>

InitInterrupted == Init

\* inject_service calls, some of them interrupted, and OTAManager
\* constructed again on the directory.
NextInterrupted ==
    \/ \E def \in JournalDefinitions : inject_service(def)
    \/ \E def \in JournalDefinitions : inject_service_interrupted(def)
    \/ new_manager

SpecInterrupted == InitInterrupted /\ [][NextInterrupted]_vars

-----------------------------------------------------------------------------
(* C31 *)

\* The names of the records of service_registry.json.
PersistedNames ==
    {PersistedServices[i]["name"] : i \in DOMAIN PersistedServices}

\* The journal records of ota_history.json for n, in journal order.
PersistedJournalFor(n) ==
    SelectSeq(PersistedJournal, LAMBDA h : h["service_name"] = n)

\* C31: in every state, the one left by an inject_service call that failed
\* between writing the registry and saving the journal included, the
\* names of the records of service_registry.json are the service_name
\* values of the records of ota_history.json.
C31_RegistryMatchesJournal ==
    PersistedNames =
        {PersistedJournal[i]["service_name"] : i \in DOMAIN PersistedJournal}

-----------------------------------------------------------------------------
(* C32 *)

\* C32: when inject_service has returned success, every record of
\* service_registry.json has the version of the last record of
\* ota_history.json for its name, and the operation and the timestamp of
\* the result are those of the last record of ota_history.json.
C32_VersionsAgree ==
    (call.op = "inject_service" /\ IsSuccess(result)) =>
        /\ \A i \in DOMAIN PersistedServices :
            LET records == PersistedJournalFor(PersistedServices[i]["name"])
            IN  /\ records # <<>>
                /\ PersistedServices[i]["version"]
                        = records[Len(records)]["version"]
        /\ PersistedJournal # <<>>
        /\ result["operation"]
                = PersistedJournal[Len(PersistedJournal)]["operation"]
        /\ result["timestamp"]
                = PersistedJournal[Len(PersistedJournal)]["timestamp"]

====
